---- MODULE Spec2Model ----
(***************************************************************************)
(* Model of the Delta Force configuration assistant (src/app.py):         *)
(* the ConfigMonitor polling thread(s), the Tk event loop of              *)
(* DeltaForceConfigApp with its `after` timer queue, the delayed restore  *)
(* of the backup over the live configuration, and the environment (the    *)
(* game process, the two files, the user).                                *)
(*                                                                         *)
(* Threads.  Every ConfigMonitor is a thread of its own; its steps         *)
(* interleave freely with the UI thread.  root.after called from the       *)
(* polling thread is a call into the Tcl interpreter of the UI thread: it  *)
(* blocks the caller until the UI thread is dispatching events, and then   *)
(* registers a timer.  Handlers on the UI thread run to completion, except *)
(* where they block (Thread.join in _stop_monitoring) or run a nested      *)
(* event loop (messagebox.showerror in _handle_monitor_error).             *)
(***************************************************************************)
EXTENDS Integers, Sequences, FiniteSets, TLC

\* ---- bounds of the model ------------------------------------------------
MaxMonitors == 2        \* ConfigMonitor threads created in one run
MaxProbes == 2          \* probes (poll ticks) of all monitor threads together

\* ---- program constants ---------------------------------------------------
DEFAULT_RESTORE_DELAY_SECONDS == 8
MinRestoreDelay == 0
MaxRestoreDelay == 120

\* file contents: the backup taken in step 1, the preset applied in step 2
BackupContent == "original"
PresetContent == "preset"

None == 0
Monitors == 1..MaxMonitors

VARIABLES
    mon,                      \* the ConfigMonitor threads: locals of run, _stop_event, history
    monitor_thread,           \* DeltaForceConfigApp.monitor_thread (None or a monitor)
    pending_restore_job,      \* DeltaForceConfigApp.pending_restore_job (None or an after id)
    game_currently_running,   \* DeltaForceConfigApp.game_currently_running
    restore_delay_var,        \* DeltaForceConfigApp.restore_delay_var
    selected_config,          \* selected_config_path is not None
    closing,                  \* DeltaForceConfigApp._closing
    rootAlive,                \* the Tk root exists and its main loop runs
    timers,                   \* Tk's timer queue (root.after), ordered by due time
    uiStack,                  \* what the UI thread is blocked in / nested in
    jobs,                     \* history: every restore timer ever scheduled
    lastOp,                   \* history: the last operation the UI thread completed
    cfg,                      \* the live configuration file
    backup,                   \* BACKUP_FILE
    probe,                    \* a call of _is_process_running: arguments, result
    gm,                       \* jiance.py: a GameMonitor and its monitor_loop threads
    ini                       \* main.py: the config file and the DeltaForceAssistant

vars == <<mon, monitor_thread, pending_restore_job, game_currently_running,
          restore_delay_var, selected_config, closing, rootAlive, timers,
          uiStack, jobs, lastOp, cfg, backup, probe, gm, ini>>

appVars == <<monitor_thread, pending_restore_job, game_currently_running,
             restore_delay_var, selected_config, closing, rootAlive>>
fileVars == <<cfg, backup>>
uiVars == <<timers, uiStack, jobs, lastOp>>

\* ---- helpers --------------------------------------------------------------

\* ConfigMonitor.__init__ and the first line of run
NewMonitor ==
    [pc |-> "check", last_running |-> FALSE, running |-> FALSE,
     stop_event |-> FALSE, ticks |-> 0, probes |-> <<>>, emitted |-> <<>>,
     errCalls |-> 0, had |-> None]

UnbornMonitor == [NewMonitor EXCEPT !.pc = "unborn"]

\* Thread.is_alive
IsAlive(m) == mon[m].pc \notin {"unborn", "done", "dead"}

\* the edge test of ConfigMonitor.run
EdgeCallbackAlways(running, last_running) ==
    IF running THEN "started" ELSE IF last_running THEN "stopped" ELSE "none"

EdgeCallback(running, last_running) ==
    IF running /\ ~last_running THEN "started"
    ELSE IF ~running /\ last_running THEN "stopped"
    ELSE "none"

\* Tcl's timer list: a new timer goes behind every timer due no later than it
RECURSIVE InsertTimer(_, _)
InsertTimer(ts, t) ==
    IF ts = <<>> THEN <<t>>
    ELSE IF Head(ts).rem <= t.rem THEN <<Head(ts)>> \o InsertTimer(Tail(ts), t)
    ELSE <<t>> \o ts

\* root.after_cancel(id)
AfterCancelNoop(ts, id) == ts

AfterCancel(ts, id) ==
    SelectSeq(ts, LAMBDA t : ~(t.cb = "restore" /\ t.id = id))

\* Python's min and max of two integers
Min2(a, b) == IF a < b THEN a ELSE b
Max2(a, b) == IF a > b THEN a ELSE b

\* the clamp of _get_restore_delay_seconds
ClampDelayAbove(v) ==
    IF v > MaxRestoreDelay THEN MaxRestoreDelay ELSE v

ClampDelay(v) ==
    IF v < MinRestoreDelay THEN MinRestoreDelay
    ELSE IF v > MaxRestoreDelay THEN MaxRestoreDelay ELSE v

\* history of the restore timers
MarkJob(js, id, by) ==
    IF id = None THEN js ELSE [js EXCEPT ![id].by = by]

RestoreTimers(ts) == SelectSeq(ts, LAMBDA t : t.cb = "restore")

\* the UI thread is in an event loop (the main loop, or the one of a modal box)
UiDispatching ==
    /\ rootAlive
    /\ IF uiStack = <<>> THEN TRUE ELSE Head(uiStack).kind = "errbox"

\* the UI thread is in the main loop and the main window takes input
UiIdle == rootAlive /\ uiStack = <<>>

\* probes started so far, by all threads
RECURSIVE TicksUpTo(_)
TicksUpTo(m) == IF m = 0 THEN 0 ELSE mon[m].ticks + TicksUpTo(m - 1)

\* longest run of GameMonitor threads created one after the other
MaxLoops == 2

Loops == 1..MaxLoops

\* GameMonitor.__init__: is_running and monitoring are False, no thread yet
NewGameMonitor ==
    [monitoring |-> FALSE, is_running |-> FALSE,
     loops |-> [t \in Loops |-> [pc |-> "unborn", current_status |-> FALSE]],
     monitor_thread |-> None, caller |-> "idle", checks |-> 0, sent |-> <<>>]

\* main.py is not running: no file is looked at
NoFile == [exists |-> FALSE, eol |-> "crlf", lines |-> <<>>, nl |-> FALSE]

NoIni == [file |-> NoFile, original_contents |-> {}, snapshot_of |-> {},
          status |-> "unreadable", op |-> "none", changed |-> FALSE]

\* no call of _is_process_running is looked at
NoProbe == [procs |-> <<>>, exe_path |-> "none", returned |-> FALSE,
            result |-> FALSE]

\* ---- initial state --------------------------------------------------------

Init ==
    /\ mon = [m \in Monitors |-> UnbornMonitor]
    /\ monitor_thread = None
    /\ pending_restore_job = None
    /\ game_currently_running = FALSE
    /\ restore_delay_var = DEFAULT_RESTORE_DELAY_SECONDS
    /\ selected_config \in BOOLEAN
    /\ closing = FALSE
    /\ rootAlive = TRUE
    /\ timers = <<>>
    /\ uiStack = <<>>
    /\ jobs = <<>>
    /\ lastOp = "none"
    /\ cfg = [content |-> PresetContent, readonly |-> FALSE]
    /\ backup = [content |-> BackupContent, readonly |-> FALSE]
    /\ probe = NoProbe
    /\ gm = NewGameMonitor
    /\ ini = NoIni

\* ---- the polling thread: ConfigMonitor.run --------------------------------

\* the thread starts: while not self._stop_event.is_set(): ... enter
\* is_game_running
LoopCheck(m) ==
    /\ mon[m].pc = "check"
    /\ IF mon[m].stop_event
       THEN mon' = [mon EXCEPT ![m].pc = "done"]
       ELSE /\ TicksUpTo(MaxMonitors) < MaxProbes
            /\ mon' = [mon EXCEPT ![m].pc = "probing", ![m].ticks = @ + 1]
    /\ UNCHANGED <<appVars, uiVars, fileVars>>
    /\ UNCHANGED <<probe, gm, ini>>

\* running = self.is_game_running(), the result being what the process
\* table holds at that moment; the edge test; on an edge the thread goes on
\* to call on_log
ProbeReturn(m, running) ==
    /\ mon[m].pc = "probing"
    /\ LET cb == EdgeCallback(running, mon[m].last_running)
       IN mon' = [mon EXCEPT
                    ![m].running = running,
                    ![m].probes = Append(@, running),
                    ![m].pc = IF cb = "none" THEN "waiting" ELSE "post_log",
                    ![m].last_running = IF cb = "none" THEN running ELSE @]
    /\ UNCHANGED <<appVars, uiVars, fileVars>>
    /\ UNCHANGED <<probe, gm, ini>>

\* is_game_running raises: except Exception -> on_error is called
ProbeRaises(m) ==
    /\ mon[m].pc = "probing"
    /\ mon' = [mon EXCEPT ![m].pc = "in_on_error", ![m].errCalls = @ + 1,
                           ![m].had = pending_restore_job]
    /\ UNCHANGED <<appVars, uiVars, fileVars>>
    /\ UNCHANGED <<probe, gm, ini>>

\* the UI thread serves the root.after of on_log; the polling thread then
\* calls on_game_started / on_game_stopped
ServicePostLog(m) ==
    /\ UiDispatching
    /\ mon[m].pc = "post_log"
    /\ mon' = [mon EXCEPT
                 ![m].pc = "post_cb",
                 ![m].emitted = Append(@, EdgeCallback(mon[m].running, mon[m].last_running))]
    /\ UNCHANGED <<appVars, uiVars, fileVars>>
    /\ UNCHANGED <<probe, gm, ini>>

\* the UI thread serves the root.after of the callback: the timer is
\* registered, the polling thread sets last_running and starts to wait
ServicePostCallbackDirect(m) ==
    /\ UiDispatching
    /\ mon[m].pc = "post_cb"
    /\ game_currently_running' = (EdgeCallback(mon[m].running, mon[m].last_running) = "started")
    /\ mon' = [mon EXCEPT ![m].pc = "waiting", ![m].last_running = mon[m].running]
    /\ UNCHANGED <<monitor_thread, pending_restore_job, restore_delay_var,
                   selected_config, closing, rootAlive, uiVars, fileVars>>
    /\ UNCHANGED <<probe, gm, ini>>

ServicePostCallback(m) ==
    /\ UiDispatching
    /\ mon[m].pc = "post_cb"
    /\ timers' = InsertTimer(timers,
                    [cb |-> EdgeCallback(mon[m].running, mon[m].last_running),
                     id |-> None, rem |-> 0, mon |-> m])
    /\ mon' = [mon EXCEPT ![m].pc = "waiting", ![m].last_running = mon[m].running]
    /\ UNCHANGED <<appVars, uiStack, jobs, lastOp, fileVars>>
    /\ UNCHANGED <<probe, gm, ini>>

\* root.after raises in the polling thread once the root is destroyed
PostRaises(m) ==
    /\ ~rootAlive
    /\ mon[m].pc \in {"post_log", "post_cb"}
    /\ mon' = [mon EXCEPT ![m].pc = "in_on_error", ![m].errCalls = @ + 1,
                           ![m].had = pending_restore_job]
    /\ UNCHANGED <<appVars, uiVars, fileVars>>
    /\ UNCHANGED <<probe, gm, ini>>

\* the UI thread serves the root.after of on_error; run re-raises and ends
ServiceOnErrorContinue(m) ==
    /\ UiDispatching
    /\ mon[m].pc = "in_on_error"
    /\ timers' = InsertTimer(timers, [cb |-> "error", id |-> None, rem |-> 0, mon |-> m])
    /\ mon' = [mon EXCEPT ![m].pc = "check"]
    /\ UNCHANGED <<appVars, uiStack, jobs, lastOp, fileVars>>
    /\ UNCHANGED <<probe, gm, ini>>

ServiceOnError(m) ==
    /\ UiDispatching
    /\ mon[m].pc = "in_on_error"
    /\ timers' = InsertTimer(timers, [cb |-> "error", id |-> None, rem |-> 0, mon |-> m])
    /\ mon' = [mon EXCEPT ![m].pc = "dead"]
    /\ UNCHANGED <<appVars, uiStack, jobs, lastOp, fileVars>>
    /\ UNCHANGED <<probe, gm, ini>>

\* on_error itself raises (root destroyed): the thread ends all the same
OnErrorRaises(m) ==
    /\ ~rootAlive
    /\ mon[m].pc = "in_on_error"
    /\ mon' = [mon EXCEPT ![m].pc = "dead"]
    /\ UNCHANGED <<appVars, uiVars, fileVars>>
    /\ UNCHANGED <<probe, gm, ini>>

WaitSlicesIgnoreStop(m) ==
    /\ mon[m].pc = "waiting"
    /\ TicksUpTo(MaxMonitors) < MaxProbes
    /\ mon' = [mon EXCEPT ![m].pc = "probing", ![m].ticks = @ + 1]
    /\ UNCHANGED <<appVars, uiVars, fileVars>>
    /\ UNCHANGED <<probe, gm, ini>>

\* for _ in range(self.interval * 10): if self._stop_event.wait(0.1): return
\* and, the event not being set, the loop test and the entry into the next
\* probe (a stop between the last slice and the loop test ends the thread
\* just as one during the last slice does)
WaitSlices(m) ==
    /\ mon[m].pc = "waiting"
    /\ IF mon[m].stop_event
       THEN mon' = [mon EXCEPT ![m].pc = "done"]
       ELSE /\ TicksUpTo(MaxMonitors) < MaxProbes
            /\ mon' = [mon EXCEPT ![m].pc = "probing", ![m].ticks = @ + 1]
    /\ UNCHANGED <<appVars, uiVars, fileVars>>
    /\ UNCHANGED <<probe, gm, ini>>

\* ---- the UI thread: DeltaForceConfigApp ------------------------------------

\* the timer at the head of Tk's queue is due and is a call of `cb`
TimerDue(cb) ==
    /\ UiDispatching
    /\ timers # <<>>
    /\ Head(timers).rem = 0
    /\ Head(timers).cb = cb

\* lastOp when _stop_monitoring returns: called by the stop button, by
\* on_close or by _handle_monitor_error, directly behind another call of it
\* or not
StopOps == {"stop", "stop_again", "err_stop", "err_stop_again"}

StopOp(caller) ==
    IF lastOp \in StopOps
    THEN (IF caller = "error" THEN "err_stop_again" ELSE "stop_again")
    ELSE (IF caller = "error" THEN "err_stop" ELSE "stop")

\* _start_monitoring; backupExists is BACKUP_FILE.exists(), exeFound the
\* result of find_game_executable
StartMonitoringNoBackupCheck(backupExists, exeFound) ==
    /\ UiIdle
    /\ lastOp' = "other"
    /\ IF \/ (monitor_thread # None /\ IsAlive(monitor_thread))
          \/ ~selected_config
          \/ ~exeFound
       THEN UNCHANGED <<mon, appVars, timers, uiStack, jobs>>
       ELSE /\ \E m \in Monitors :
                 /\ mon[m].pc = "unborn"
                 /\ \A k \in Monitors : k < m => mon[k].pc # "unborn"
                 /\ mon' = [mon EXCEPT ![m] = NewMonitor]
                 /\ monitor_thread' = m
            /\ restore_delay_var' = ClampDelay(restore_delay_var)
            /\ UNCHANGED <<pending_restore_job, game_currently_running,
                           selected_config, closing, rootAlive, timers, uiStack, jobs>>
    /\ UNCHANGED <<fileVars>>
    /\ UNCHANGED <<probe, gm, ini>>

StartMonitoring(backupExists, exeFound) ==
    /\ UiIdle
    /\ lastOp' = "other"
    /\ IF \/ (monitor_thread # None /\ IsAlive(monitor_thread))
          \/ ~selected_config
          \/ ~backupExists
          \/ ~exeFound
       THEN UNCHANGED <<mon, appVars, timers, uiStack, jobs>>
       ELSE /\ \E m \in Monitors :
                 /\ mon[m].pc = "unborn"
                 /\ \A k \in Monitors : k < m => mon[k].pc # "unborn"
                 /\ mon' = [mon EXCEPT ![m] = NewMonitor]
                 /\ monitor_thread' = m
            /\ restore_delay_var' = ClampDelay(restore_delay_var)
            /\ UNCHANGED <<pending_restore_job, game_currently_running,
                           selected_config, closing, rootAlive, timers, uiStack, jobs>>
    /\ UNCHANGED <<fileVars>>
    /\ UNCHANGED <<probe, gm, ini>>

\* the part of _stop_monitoring behind join: forget the thread, cancel the
\* pending restore, clear the flag
StopTail ==
    /\ monitor_thread' = None
    /\ timers' = IF pending_restore_job # None
                 THEN AfterCancel(timers, pending_restore_job) ELSE timers
    /\ jobs' = MarkJob(jobs, pending_restore_job, "stop")
    /\ pending_restore_job' = None
    /\ game_currently_running' = FALSE

\* _stop_monitoring called by the stop button, which _update_step_states
\* enables only while there is a monitor thread: sets the stop event and
\* blocks in join(timeout=2)
StopMonitoring ==
    /\ UiIdle
    /\ monitor_thread # None
    /\ mon' = [mon EXCEPT ![monitor_thread].stop_event = TRUE]
    /\ uiStack' = <<[kind |-> "join", cont |-> "button", had |-> None]>> \o uiStack
    /\ UNCHANGED <<appVars, timers, jobs, lastOp, fileVars>>
    /\ UNCHANGED <<probe, gm, ini>>

\* what on_close has left to do when its _stop_monitoring has returned
DestroyFrame == [kind |-> "destroy", cont |-> "close", had |-> None]

\* join returns (the thread has ended, or the 2 seconds are over) and the
\* rest of _stop_monitoring runs
JoinReturn ==
    /\ rootAlive
    /\ uiStack # <<>>
    /\ Head(uiStack).kind = "join"
    /\ uiStack' = IF Head(uiStack).cont = "close"
                  THEN <<DestroyFrame>> \o Tail(uiStack) ELSE Tail(uiStack)
    /\ StopTail
    /\ lastOp' = StopOp(Head(uiStack).cont)
    /\ UNCHANGED <<mon, restore_delay_var, selected_config, closing, rootAlive,
                   fileVars>>
    /\ UNCHANGED <<probe, gm, ini>>

\* on_close up to the return of _stop_monitoring: _persist_settings, then
\* the stop operation, which returns at once without a monitor
OnClose ==
    /\ UiIdle
    /\ ~closing
    /\ closing' = TRUE
    /\ restore_delay_var' = ClampDelay(restore_delay_var)
    /\ IF monitor_thread = None
       THEN /\ uiStack' = <<DestroyFrame>> \o uiStack
            /\ lastOp' = StopOp("close")
            /\ UNCHANGED mon
       ELSE /\ mon' = [mon EXCEPT ![monitor_thread].stop_event = TRUE]
            /\ uiStack' = <<[kind |-> "join", cont |-> "close", had |-> None]>> \o uiStack
            /\ UNCHANGED lastOp
    /\ UNCHANGED <<monitor_thread, pending_restore_job, game_currently_running,
                   selected_config, rootAlive, timers, jobs, fileVars>>
    /\ UNCHANGED <<probe, gm, ini>>

\* the last line of on_close: root.destroy() ends the main loop and drops
\* every timer
RootDestroy ==
    /\ rootAlive
    /\ uiStack # <<>>
    /\ Head(uiStack).kind = "destroy"
    /\ uiStack' = Tail(uiStack)
    /\ rootAlive' = FALSE
    /\ timers' = <<>>
    /\ jobs' = MarkJob(jobs, pending_restore_job, "destroy")
    /\ lastOp' = "other"
    /\ UNCHANGED <<mon, monitor_thread, pending_restore_job, game_currently_running,
                   restore_delay_var, selected_config, closing, fileVars>>
    /\ UNCHANGED <<probe, gm, ini>>

\* _on_game_started
OnGameStartedNoDelay ==
    /\ TimerDue("started")
    /\ game_currently_running' = TRUE
    /\ LET delay == ClampDelay(restore_delay_var)
           id == Len(jobs) + 1
           kept == IF pending_restore_job # None
                   THEN AfterCancel(Tail(timers), pending_restore_job)
                   ELSE Tail(timers)
       IN /\ restore_delay_var' = delay
          /\ timers' = InsertTimer(kept,
                          [cb |-> "restore", id |-> id, rem |-> 0, mon |-> None])
          /\ pending_restore_job' = id
          /\ jobs' = Append(MarkJob(jobs, pending_restore_job, "started"),
                            [by |-> "none", fired |-> 0, saw |-> <<>>, out |-> "none"])
    /\ lastOp' = "other"
    /\ UNCHANGED <<mon, monitor_thread, selected_config, closing, rootAlive,
                   uiStack, fileVars>>
    /\ UNCHANGED <<probe, gm, ini>>

OnGameStartedNoCancel ==
    /\ TimerDue("started")
    /\ game_currently_running' = TRUE
    /\ LET delay == ClampDelay(restore_delay_var)
           id == Len(jobs) + 1
       IN /\ restore_delay_var' = delay
          /\ timers' = InsertTimer(Tail(timers),
                          [cb |-> "restore", id |-> id, rem |-> delay, mon |-> None])
          /\ pending_restore_job' = id
          /\ jobs' = Append(jobs, [by |-> "none", fired |-> 0, saw |-> <<>>, out |-> "none"])
    /\ lastOp' = "other"
    /\ UNCHANGED <<mon, monitor_thread, selected_config, closing, rootAlive,
                   uiStack, fileVars>>
    /\ UNCHANGED <<probe, gm, ini>>

OnGameStarted ==
    /\ TimerDue("started")
    /\ game_currently_running' = TRUE
    /\ LET delay == ClampDelay(restore_delay_var)
           id == Len(jobs) + 1
           kept == IF pending_restore_job # None
                   THEN AfterCancel(Tail(timers), pending_restore_job)
                   ELSE Tail(timers)
       IN /\ restore_delay_var' = delay
          /\ timers' = InsertTimer(kept,
                          [cb |-> "restore", id |-> id, rem |-> delay, mon |-> None])
          /\ pending_restore_job' = id
          /\ jobs' = Append(MarkJob(jobs, pending_restore_job, "started"),
                            [by |-> "none", fired |-> 0, saw |-> <<>>, out |-> "none"])
    /\ lastOp' = "other"
    /\ UNCHANGED <<mon, monitor_thread, selected_config, closing, rootAlive,
                   uiStack, fileVars>>
    /\ UNCHANGED <<probe, gm, ini>>

\* _on_game_stopped
OnGameStoppedNoCancel ==
    /\ TimerDue("stopped")
    /\ game_currently_running' = FALSE
    /\ timers' = Tail(timers)
    /\ jobs' = MarkJob(jobs, pending_restore_job, "stopped")
    /\ pending_restore_job' = None
    /\ lastOp' = "other"
    /\ UNCHANGED <<mon, monitor_thread, restore_delay_var, selected_config,
                   closing, rootAlive, uiStack, fileVars>>
    /\ UNCHANGED <<probe, gm, ini>>

\* _on_game_stopped clearing the flag and leaving the pending restore alone
OnGameStoppedFlagOnly ==
    /\ TimerDue("stopped")
    /\ game_currently_running' = FALSE
    /\ timers' = Tail(timers)
    /\ lastOp' = "other"
    /\ UNCHANGED <<mon, monitor_thread, pending_restore_job, restore_delay_var,
                   selected_config, closing, rootAlive, uiStack, jobs, fileVars>>
    /\ UNCHANGED <<probe, gm, ini>>

OnGameStopped ==
    /\ TimerDue("stopped")
    /\ game_currently_running' = FALSE
    /\ timers' = IF pending_restore_job # None
                 THEN AfterCancel(Tail(timers), pending_restore_job)
                 ELSE Tail(timers)
    /\ jobs' = MarkJob(jobs, pending_restore_job, "stopped")
    /\ pending_restore_job' = None
    /\ lastOp' = "other"
    /\ UNCHANGED <<mon, monitor_thread, restore_delay_var, selected_config,
                   closing, rootAlive, uiStack, fileVars>>
    /\ UNCHANGED <<probe, gm, ini>>

\* _handle_monitor_error up to messagebox.showerror: the box runs an event
\* loop of its own until the user dismisses it
HandleMonitorError ==
    /\ TimerDue("error")
    /\ timers' = Tail(timers)
    /\ uiStack' = <<[kind |-> "errbox", cont |-> "error",
                      had |-> IF mon[Head(timers).mon].had = pending_restore_job
                              THEN pending_restore_job ELSE None]>> \o uiStack
    /\ UNCHANGED <<mon, appVars, jobs, lastOp, fileVars>>
    /\ UNCHANGED <<probe, gm, ini>>

\* the box is dismissed: _handle_monitor_error calls _stop_monitoring
DismissErrorBox ==
    /\ rootAlive
    /\ uiStack # <<>>
    /\ Head(uiStack).kind = "errbox"
    /\ IF monitor_thread = None
       THEN /\ uiStack' = Tail(uiStack)
            /\ lastOp' = StopOp("error")
            /\ UNCHANGED mon
       ELSE /\ mon' = [mon EXCEPT ![monitor_thread].stop_event = TRUE]
            /\ uiStack' = <<[kind |-> "join", cont |-> "error", had |-> None]>>
                            \o Tail(uiStack)
            /\ UNCHANGED lastOp
    /\ UNCHANGED <<appVars, timers, jobs, fileVars>>
    /\ UNCHANGED <<probe, gm, ini>>

\* the early returns of _restore_backup_to_game
RestoreDecisionNoCopy(running, selected, cfgExists, backupExists) ==
    IF ~running THEN "skipped"
    ELSE IF ~selected \/ ~cfgExists THEN "noconfig"
    ELSE "nobackup"

RestoreDecision(running, selected, cfgExists, backupExists) ==
    IF ~running THEN "skipped"
    ELSE IF ~selected \/ ~cfgExists THEN "noconfig"
    ELSE IF ~backupExists THEN "nobackup"
    ELSE "copy"

\* history: the results of the exists() calls a restore made, in order
ExistsCalls(cfgExists, backupExists) ==
    IF ~game_currently_running \/ ~selected_config THEN <<>>
    ELSE IF ~cfgExists THEN <<FALSE>>
    ELSE <<TRUE, backupExists>>

\* _ensure_writable / _ensure_read_only: chmod, its failure is swallowed
EnsureWritable(f, chmodOk) ==
    IF chmodOk THEN [f EXCEPT !.readonly = FALSE] ELSE f

EnsureReadOnly(f, chmodOk) ==
    IF chmodOk THEN [f EXCEPT !.readonly = TRUE] ELSE f

\* how shutil.copy2 can end: "ok", or it raises when it opens dst, while it
\* writes the content, or in copystat after the content is written
CopyModes == {"ok", "open", "write", "stat"}

\* what a file holds that copy2 truncated and did not finish
PartialContent == "partial"

\* shutil.copy2(src, dst): content and mode bits; raises on a read-only dst
CopyOk(dst, io) == io = "ok" /\ ~dst.readonly

Copy2(src, dst) ==
    [content |-> src.content, readonly |-> src.readonly]

\* dst after a copy2 that raised: untouched when it could not be opened
CopyFailed(src, dst, io) ==
    IF dst.readonly \/ io \in {"ok", "open"} THEN dst
    ELSE IF io = "write" THEN [dst EXCEPT !.content = PartialContent]
    ELSE [dst EXCEPT !.content = src.content]

RestoreBackupToGameGivesUp(cfgExists, backupExists, chmodW, io, chmodR) ==
    /\ TimerDue("restore")
    /\ timers' = Tail(timers)
    /\ pending_restore_job' = None
    /\ LET id == Head(timers).id
           d == RestoreDecision(game_currently_running, selected_config,
                                cfgExists, backupExists)
           writable == EnsureWritable(cfg, chmodW)
           copied == CopyOk(writable, io)
           out == IF d # "copy" THEN d ELSE IF copied THEN "restored" ELSE "failed"
       IN /\ cfg' = IF d # "copy" THEN cfg
                    ELSE IF copied THEN EnsureReadOnly(Copy2(backup, writable), chmodR)
                    ELSE CopyFailed(backup, writable, io)
          /\ jobs' = [jobs EXCEPT ![id].fired = @ + 1, ![id].out = out,
                                   ![id].saw = ExistsCalls(cfgExists, backupExists)]
          /\ game_currently_running' = IF out = "failed" THEN FALSE
                                       ELSE game_currently_running
    /\ lastOp' = "other"
    /\ UNCHANGED <<mon, monitor_thread, restore_delay_var,
                   selected_config, closing, rootAlive, uiStack, backup>>
    /\ UNCHANGED <<probe, gm, ini>>

\* _restore_backup_to_game, the callback of the restore timer; cfgExists and
\* backupExists are the results of the two exists() calls, the other three
\* inputs say whether chmod succeeds, how the copy ends and whether the
\* second chmod succeeds; the error box of a failed copy changes nothing and
\* is left out
RestoreBackupToGame(cfgExists, backupExists, chmodW, io, chmodR) ==
    /\ TimerDue("restore")
    /\ timers' = Tail(timers)
    /\ pending_restore_job' = None
    /\ LET id == Head(timers).id
           d == RestoreDecision(game_currently_running, selected_config,
                                cfgExists, backupExists)
           writable == EnsureWritable(cfg, chmodW)
           copied == CopyOk(writable, io)
           out == IF d # "copy" THEN d ELSE IF copied THEN "restored" ELSE "failed"
       IN /\ cfg' = IF d # "copy" THEN cfg
                    ELSE IF copied THEN EnsureReadOnly(Copy2(backup, writable), chmodR)
                    ELSE CopyFailed(backup, writable, io)
          /\ jobs' = [jobs EXCEPT ![id].fired = @ + 1, ![id].out = out,
                                   ![id].saw = ExistsCalls(cfgExists, backupExists)]
    /\ lastOp' = "other"
    /\ UNCHANGED <<mon, monitor_thread, game_currently_running, restore_delay_var,
                   selected_config, closing, rootAlive, uiStack, backup>>
    /\ UNCHANGED <<probe, gm, ini>>

\* ---- the environment --------------------------------------------------------

\* time passes until the next timer is due
Advance ==
    /\ \E i \in 1..Len(timers) : timers[i].rem > 0
    /\ LET pos == {timers[i].rem : i \in {k \in 1..Len(timers) : timers[k].rem > 0}}
           d == CHOOSE x \in pos : \A y \in pos : x <= y
       IN timers' = [i \in 1..Len(timers) |->
                        IF timers[i].rem > 0
                        THEN [timers[i] EXCEPT !.rem = @ - d] ELSE timers[i]]
    /\ UNCHANGED <<mon, appVars, uiStack, jobs, lastOp, fileVars>>
    /\ UNCHANGED <<probe, gm, ini>>

MonitorStep(m) ==
    \/ LoopCheck(m)
    \/ \E running \in BOOLEAN : ProbeReturn(m, running)
    \/ ProbeRaises(m)
    \/ ServicePostLog(m)
    \/ ServicePostCallback(m)
    \/ PostRaises(m)
    \/ ServiceOnError(m)
    \/ OnErrorRaises(m)
    \/ WaitSlices(m)

UiStep ==
    \/ \E backupExists, exeFound \in BOOLEAN : StartMonitoring(backupExists, exeFound)
    \/ StopMonitoring
    \/ JoinReturn
    \/ OnClose
    \/ RootDestroy
    \/ OnGameStarted
    \/ OnGameStopped
    \/ HandleMonitorError
    \/ DismissErrorBox
    \/ \E cfgExists, backupExists, chmodW, chmodR \in BOOLEAN : \E io \in CopyModes :
          RestoreBackupToGame(cfgExists, backupExists, chmodW, io, chmodR)

EnvStep ==
    \/ Advance

Next ==
    \/ \E m \in Monitors : MonitorStep(m)
    \/ UiStep
    \/ EnvStep

Spec == Init /\ [][Next]_vars

\* ---- properties -------------------------------------------------------------

\* the restore timers in the queue, as a set of ids
LiveJobs == {timers[i].id : i \in {k \in 1..Len(timers) : timers[k].cb = "restore"}}

\* the callbacks a sequence of probe results calls for, `prev` being the
\* result before the first of them
RECURSIVE ExpectedCallbacks(_, _)
ExpectedCallbacks(results, prev) ==
    IF results = <<>> THEN <<>>
    ELSE (IF Head(results) /\ ~prev THEN <<"started">>
          ELSE IF ~Head(results) /\ prev THEN <<"stopped">>
          ELSE <<>>) \o ExpectedCallbacks(Tail(results), Head(results))

IsPrefix(a, b) == Len(a) <= Len(b) /\ a = SubSeq(b, 1, Len(a))

\* C1: the callbacks a monitor has called are exactly those of the edges in
\* the probe results it has got so far, starting from last_running = FALSE:
\* started on every false->true tick, stopped on every true->false tick,
\* nothing on a tick that repeats the previous result (the tick whose on_log
\* call is still in progress has not called its callback yet; a loop that
\* raised has called a prefix of them).
C1_CallbacksAreEdges ==
    \A m \in Monitors :
        LET seen == IF mon[m].pc = "post_log"
                    THEN SubSeq(mon[m].probes, 1, Len(mon[m].probes) - 1)
                    ELSE mon[m].probes
        IN IF mon[m].errCalls = 0
           THEN mon[m].emitted = ExpectedCallbacks(seen, FALSE)
           ELSE IsPrefix(mon[m].emitted, ExpectedCallbacks(mon[m].probes, FALSE))

C1_Witness ==
    \E m \in Monitors :
        /\ mon[m].probes = <<TRUE, FALSE>>
        /\ mon[m].emitted = <<"started", "stopped">>
        /\ mon[m].pc = "waiting"

\* C2: while monitoring is stopped (monitor_thread is None) no restore timer
\* is scheduled and none is recorded.
C2_NoRestoreWhileStopped ==
    monitor_thread = None => (pending_restore_job = None /\ LiveJobs = {})

\* C3: a restore timer that _on_game_stopped cancelled has not fired and is
\* not in the timer queue.
C3_StoppedEdgeCancels ==
    \A id \in 1..Len(jobs) :
        jobs[id].by = "stopped" => (jobs[id].fired = 0 /\ id \notin LiveJobs)

C3_Witness ==
    \E id \in 1..Len(jobs) : jobs[id].by = "stopped" /\ jobs[id].fired = 0

C5_StopTwiceLeavesNoHandle ==
    (lastOp \in {"stop_again", "err_stop_again"}
       \/ (lastOp \in StopOps /\ mon[1].pc = "unborn"))
    => (pending_restore_job = None /\ LiveJobs = {})

C7_SecondStartSupersedes ==
    \A id \in 1..Len(jobs) :
        jobs[id].by = "started" =>
            /\ jobs[id].fired = 0
            /\ id \notin LiveJobs
            /\ id < Len(jobs)
            /\ jobs[id + 1].fired <= 1
            /\ (jobs[id + 1].by # "none" => jobs[id + 1].fired = 0)
            /\ (id + 1 \in LiveJobs => jobs[id + 1].fired = 0)
            /\ (jobs[id + 1].by = "none" /\ id + 1 \notin LiveJobs
                  => jobs[id + 1].fired = 1)

C7_Witness ==
    \E id \in 1..Len(jobs) :
        /\ jobs[id].by = "started"
        /\ id < Len(jobs)
        /\ jobs[id + 1].fired = 1

\* C8: the callback of an edge has been handled before the same polling
\* thread evaluates its next edge: no thread has two edges unhandled.
QueuedOf(m) ==
    Len(SelectSeq(timers, LAMBDA t : t.mon = m /\ t.cb \in {"started", "stopped"}))

C8_EdgeHandledBeforeNext ==
    \A m \in Monitors :
        QueuedOf(m) + (IF mon[m].pc \in {"post_log", "post_cb"} THEN 1 ELSE 0) <= 1

\* C9: a monitor whose loop raised has called on_error exactly once, is in
\* that call or has ended, and from then on probes nothing and calls nothing.
C9_ErrorIsFinal ==
    [][\A m \in Monitors :
          /\ mon'[m].errCalls <= 1
          /\ (mon'[m].errCalls = 1) = (mon'[m].pc \in {"in_on_error", "dead"})
          /\ mon[m].errCalls > 0 =>
                /\ mon'[m].pc \in {"in_on_error", "dead"}
                /\ mon'[m].ticks = mon[m].ticks
                /\ mon'[m].probes = mon[m].probes
                /\ mon'[m].emitted = mon[m].emitted
                /\ mon'[m].errCalls = mon[m].errCalls
      ]_vars

C9_Witness ==
    \E m \in Monitors :
        /\ mon[m].pc = "dead"
        /\ mon[m].errCalls = 1
        /\ mon[m].emitted = <<"started">>

\* C10: once _handle_monitor_error has returned monitoring is stopped and no
\* restore is pending, and a restore that was pending when the error was
\* raised and still when _handle_monitor_error began does not fire.
C10_ErrorStopsEverything ==
    /\ lastOp \in {"err_stop", "err_stop_again"} =>
          /\ monitor_thread = None
          /\ ~game_currently_running
          /\ pending_restore_job = None
          /\ LiveJobs = {}
    /\ \A i \in 1..Len(uiStack) :
          (uiStack[i].kind = "errbox" /\ uiStack[i].had # None)
              => jobs[uiStack[i].had].fired = 0

\* ---- the polling thread under fair scheduling ---------------------------------

\* every thread that can take a step takes one in the end; join(timeout=2)
\* returns and on_close goes on to root.destroy()
PollFairness ==
    /\ \A m \in Monitors : WF_vars(MonitorStep(m))
    /\ WF_vars(JoinReturn)
    /\ WF_vars(RootDestroy)

\* the steps that decide whether the polling thread can go on: its own, and
\* those of the UI thread that start, stop, close, block in join or open the
\* error box; the restore delay does not run out (no Advance), so no restore
\* fires, which no step of the polling thread depends on
PollNext ==
    \/ \E m \in Monitors : MonitorStep(m)
    \/ \E backupExists, exeFound \in BOOLEAN : StartMonitoring(backupExists, exeFound)
    \/ StopMonitoring
    \/ JoinReturn
    \/ OnClose
    \/ RootDestroy
    \/ OnGameStarted
    \/ OnGameStopped
    \/ HandleMonitorError
    \/ DismissErrorBox

PollSpec == Init /\ [][PollNext]_vars /\ PollFairness

DelayInputs == {-1, 0, DEFAULT_RESTORE_DELAY_SECONDS, MaxRestoreDelay + 1}

\* _apply_loaded_settings: restore_delay_seconds of settings.json, clamped
LoadedDelay(v) == Max2(MinRestoreDelay, Min2(MaxRestoreDelay, v))

\* the user edits the Spinbox bound to restore_delay_var
SetDelay(v) ==
    /\ UiIdle
    /\ restore_delay_var # v
    /\ restore_delay_var' = v
    /\ UNCHANGED <<mon, monitor_thread, pending_restore_job, game_currently_running,
                   selected_config, closing, rootAlive, uiVars, fileVars>>
    /\ UNCHANGED <<probe, gm, ini>>

\* the application started with any persisted delay
TimerInit ==
    /\ mon = [m \in Monitors |-> UnbornMonitor]
    /\ monitor_thread = None
    /\ pending_restore_job = None
    /\ game_currently_running = FALSE
    /\ restore_delay_var \in {LoadedDelay(v) : v \in DelayInputs}
    /\ selected_config \in BOOLEAN
    /\ closing = FALSE
    /\ rootAlive = TRUE
    /\ timers = <<>>
    /\ uiStack = <<>>
    /\ jobs = <<>>
    /\ lastOp = "none"
    /\ cfg = [content |-> PresetContent, readonly |-> FALSE]
    /\ backup = [content |-> BackupContent, readonly |-> FALSE]
    /\ probe = NoProbe
    /\ gm = NewGameMonitor
    /\ ini = NoIni

\* the application with its first polling thread running and the user
\* editing the delay
TimerNext ==
    \/ MonitorStep(1)
    \/ UiStep
    \/ \E v \in DelayInputs : SetDelay(v)
    \/ Advance

\* Tk dispatches the timers that are due, time passes, join and on_close
\* go on
TimerFairness ==
    /\ WF_vars(Advance)
    /\ WF_vars(OnGameStarted)
    /\ WF_vars(OnGameStopped)
    /\ WF_vars(HandleMonitorError)
    /\ WF_vars(\E cfgExists, backupExists, chmodW, chmodR \in BOOLEAN :
                  \E io \in CopyModes :
                      RestoreBackupToGame(cfgExists, backupExists, chmodW, io, chmodR))
    /\ WF_vars(JoinReturn)
    /\ WF_vars(RootDestroy)

TimerSpec == TimerInit /\ [][TimerNext]_vars /\ TimerFairness

\* the restore timer of job `id` as it stands in the queue
TimerOf(ts, id) == SelectSeq(ts, LAMBDA t : t.cb = "restore" /\ t.id = id)

\* a restore that was scheduled and neither fired nor was cancelled (by a
\* stopped edge, a stop, a later started edge or the end of the window)
Awaited(id) ==
    /\ id <= Len(jobs)
    /\ jobs[id].by = "none"
    /\ jobs[id].fired = 0

\* C12: the restore a started edge schedules is queued with the clamped
\* delay (due at once when that is 0); it fires only when due, only if it
\* was not cancelled, never twice, and with both files present and no I/O
\* error it installs the backup's content; and unless it is cancelled it
\* does fire.
C12_RestoreFiresOnce ==
    /\ [][\A id \in 1..Len(jobs') :
            /\ (Len(jobs') = Len(jobs) + 1 /\ id = Len(jobs')) =>
                  /\ Len(TimerOf(timers', id)) = 1
                  /\ TimerOf(timers', id)[1].rem = ClampDelay(restore_delay_var)
            /\ (id <= Len(jobs) /\ jobs'[id].fired # jobs[id].fired) =>
                  /\ Awaited(id)
                  /\ jobs'[id].fired = 1
                  /\ Len(TimerOf(timers, id)) = 1
                  /\ TimerOf(timers, id)[1].rem = 0
                  /\ TimerOf(timers', id) = <<>>
                  /\ (jobs'[id].saw = <<TRUE, TRUE>> /\ jobs'[id].out # "failed") =>
                        (jobs'[id].out = "restored" /\ cfg'.content = backup.content)
         ]_vars
    /\ \A id \in 1..MaxProbes :
          Awaited(id) ~> (id <= Len(jobs) /\ (jobs[id].fired = 1 \/ jobs[id].by # "none"))

\* a restore scheduled with delay 0 has fired and copied
C12_Witness ==
    \E id \in 1..Len(jobs) :
        /\ jobs[id].fired = 1
        /\ jobs[id].by = "none"
        /\ jobs[id].out = "restored"
        /\ restore_delay_var = 0
        /\ cfg.content = backup.content
        /\ monitor_thread # None

\* ---- who writes what --------------------------------------------------------

\* thread m takes a step: every step of run moves it on
ThreadMoves(m) == mon[m].pc # "unborn" /\ mon'[m].pc # mon[m].pc

\* C13: a step of a polling thread (probe, edge test, posting a callback,
\* waiting, ending) leaves the live config, the backup, pending_restore_job
\* and game_currently_running alone and fires no restore; the live config is
\* changed only by the step in which the UI thread fires a restore timer.
C13_PollerWritesNothing ==
    [][/\ \A m \in Monitors :
            ThreadMoves(m) =>
                /\ cfg' = cfg
                /\ backup' = backup
                /\ pending_restore_job' = pending_restore_job
                /\ game_currently_running' = game_currently_running
                /\ jobs' = jobs
       /\ cfg' # cfg =>
            /\ mon' = mon
            /\ UiDispatching
            /\ \E id \in 1..Len(jobs) : jobs'[id].fired = jobs[id].fired + 1
      ]_vars

\* a thread has posted the stopped edge while the restore of its started
\* edge is still pending
C13_Witness ==
    \E m \in Monitors :
        /\ mon[m].emitted = <<"started", "stopped">>
        /\ mon[m].pc = "waiting"
        /\ pending_restore_job # None
        /\ game_currently_running
        /\ cfg.content = PresetContent

\* ---- the files: backup and restore ------------------------------------------

\* contents the two files can have when the application starts
Contents == {BackupContent, PresetContent}

\* lastOp when _backup_selected_config returns
BackupOps == {"backup_ok", "backup_failed", "backup_missing"}

\* _backup_selected_config, the backup button: cfgExists is
\* selected_config_path.exists(), chmodW whether the chmod of _ensure_writable
\* succeeds, io how the copy ends; the boxes it shows change nothing
BackupSelectedConfig(cfgExists, chmodW, io) ==
    /\ UiIdle
    /\ IF ~selected_config
       THEN /\ lastOp' = "other"
            /\ UNCHANGED backup
       ELSE IF ~cfgExists
       THEN /\ lastOp' = "backup_missing"
            /\ UNCHANGED backup
       ELSE LET writable == EnsureWritable(backup, chmodW)
            IN IF CopyOk(writable, io)
               THEN /\ backup' = Copy2(cfg, writable)
                    /\ lastOp' = "backup_ok"
               ELSE /\ backup' = CopyFailed(cfg, writable, io)
                    /\ lastOp' = "backup_failed"
    /\ UNCHANGED <<mon, appVars, timers, uiStack, jobs, cfg>>
    /\ UNCHANGED <<probe, gm, ini>>

\* the application started with any two files on disk
FileInit ==
    /\ mon = [m \in Monitors |-> UnbornMonitor]
    /\ monitor_thread = None
    /\ pending_restore_job = None
    /\ game_currently_running = FALSE
    /\ restore_delay_var = DEFAULT_RESTORE_DELAY_SECONDS
    /\ selected_config \in BOOLEAN
    /\ closing = FALSE
    /\ rootAlive = TRUE
    /\ timers = <<>>
    /\ uiStack = <<>>
    /\ jobs = <<>>
    /\ lastOp = "none"
    /\ cfg \in [content : Contents, readonly : BOOLEAN]
    /\ backup \in [content : Contents, readonly : BOOLEAN]
    /\ probe = NoProbe
    /\ gm = NewGameMonitor
    /\ ini = NoIni

\* the application with its first polling thread running and the user
\* taking backups
FileNext ==
    \/ MonitorStep(1)
    \/ UiStep
    \/ \E cfgExists, chmodW \in BOOLEAN : \E io \in CopyModes :
          BackupSelectedConfig(cfgExists, chmodW, io)
    \/ Advance

FileSpec == FileInit /\ [][FileNext]_vars

\* job `id` fires in this step
Fires(id) == id <= Len(jobs) /\ Len(jobs') = Len(jobs) /\ jobs'[id].fired = jobs[id].fired + 1

\* C14: a restore that reports success leaves the live config with the
\* backup's content and read-only.
C14_RestoreSuccessPostcondition ==
    [][\A id \in 1..Len(jobs) :
          (Fires(id) /\ jobs'[id].out = "restored") =>
              /\ cfg'.content = backup.content
              /\ cfg'.readonly
      ]_vars

\* C15: a restore that went as far as the copy and does not leave the live
\* config read-only reports a failure (and a restore that reports a failure
\* does not put the old content back).
C15_PartialCompletionReported ==
    [][\A id \in 1..Len(jobs) :
          (Fires(id) /\ jobs'[id].saw = <<TRUE, TRUE>> /\ ~cfg'.readonly) =>
              jobs'[id].out = "failed"
      ]_vars

\* C16: a restore or a backup whose copy fails reports it and ends there:
\* the monitor thread, its loop and game_currently_running are as before, no
\* restore is queued again by the failure, and every started edge handled
\* later schedules a restore as usual.
C16_CopyFailureLeavesMonitor ==
    [][/\ \A id \in 1..Len(jobs) :
            (Fires(id) /\ jobs'[id].out = "failed") =>
                /\ mon' = mon
                /\ monitor_thread' = monitor_thread
                /\ game_currently_running' = game_currently_running
                /\ pending_restore_job' = None
                /\ LiveJobs' = {}
                /\ backup' = backup
       /\ (lastOp' = "backup_failed" /\ (lastOp # "backup_failed" \/ backup' # backup)) =>
                /\ mon' = mon
                /\ monitor_thread' = monitor_thread
                /\ game_currently_running' = game_currently_running
                /\ pending_restore_job' = pending_restore_job
                /\ timers' = timers
                /\ cfg' = cfg
       /\ Len(jobs') = Len(jobs) + 1 =>
                /\ game_currently_running'
                /\ pending_restore_job' = Len(jobs')
                /\ LiveJobs' = {Len(jobs')}
      ]_vars

\* the copy of a restore failed half-way and the same monitor went on to
\* report the end of the game
C16_Witness ==
    /\ Len(jobs) = 1
    /\ jobs[1].out = "failed"
    /\ cfg.content = PartialContent
    /\ monitor_thread = 1
    /\ IsAlive(1)
    /\ mon[1].emitted = <<"started", "stopped">>
    /\ ~game_currently_running

\* C17: the delay setting holds a value of 0..120 when the application has
\* started; a step that reads the delay (start of monitoring, a started
\* edge, closing) leaves max(0, min(120, value)) in the setting; a started
\* edge queues its restore with exactly that many seconds; and every restore
\* timer in the queue is due in 0..120 seconds.
C17_DelayClamped ==
    /\ restore_delay_var \in 0..120
    /\ [][/\ (restore_delay_var' # restore_delay_var
                /\ (mon' # mon \/ closing' # closing \/ jobs' # jobs)) =>
                  restore_delay_var' = Max2(0, Min2(120, restore_delay_var))
          /\ Len(jobs') = Len(jobs) + 1 =>
                /\ restore_delay_var' = Max2(0, Min2(120, restore_delay_var))
                /\ Len(TimerOf(timers', Len(jobs'))) = 1
                /\ TimerOf(timers', Len(jobs'))[1].rem = Max2(0, Min2(120, restore_delay_var))
          /\ \A i \in 1..Len(timers') : timers'[i].rem \in 0..120
         ]_vars

\* a restore queued with the 120 seconds that only the clamp of 121 yields
C17_Witness ==
    /\ restore_delay_var = 120
    /\ pending_restore_job # None
    /\ Len(TimerOf(timers, pending_restore_job)) = 1
    /\ TimerOf(timers, pending_restore_job)[1].rem = 120

\* a call of _backup_selected_config returns in this step with result `op`
BackupReturns(op) ==
    /\ lastOp' = op
    /\ (lastOp # op \/ backup' # backup)

\* C18: a backup that succeeds leaves the backup file with the content of
\* the selected config; a backup that fails, because the selected config is
\* missing or because the copy fails, leaves the content of the backup file
\* as it was.
C18_BackupPostcondition ==
    [][/\ BackupReturns("backup_ok") => backup'.content = cfg.content
       /\ BackupReturns("backup_missing") => backup' = backup
       /\ BackupReturns("backup_failed") => backup'.content = backup.content
       /\ backup' # backup => lastOp' \in BackupOps
      ]_vars

\* ---- the process probe: _is_process_running, is_game_running --------------

\* longest process table enumerated by one probe
MaxProcs == 2

\* str.lower on the letters that occur in the names below
LowerChar(c) ==
    CASE c = "D" -> "d"
      [] c = "F" -> "f"
      [] c = "X" -> "x"
      [] OTHER -> c

Lower(s) == [i \in 1..Len(s) |-> LowerChar(s[i])]

\* str.startswith
StartsWith(s, prefix) ==
    Len(prefix) <= Len(s) /\ SubSeq(s, 1, Len(prefix)) = prefix

\* process names psutil can report: empty, the stem in another case, the
\* stem with more letters after it, a proper prefix of the stem, the stem
\* preceded by another letter
ProcNames == {<<>>, <<"D", "F">>, <<"d", "f", "x">>, <<"d">>, <<"x", "d", "f">>}

\* executable paths psutil can report; "" is what it gives when the path
\* cannot be determined
ExePaths == {"", "C:/Game/DF.exe", "C:/Link/DF.exe", "D:/Other/X.exe"}

\* the executables a monitor is created for; find_game_executable returns a
\* file, so the stem is never empty
Targets == {"C:/Game/DF.exe", "C:/Link/DF.exe", "D:/Other/X.exe"}

\* Path.stem of a target
Stem(path) == IF path = "D:/Other/X.exe" THEN <<"X">> ELSE <<"D", "F">>

\* Path.resolve: C:/Link is a link to C:/Game, the empty path is the
\* working directory
Resolve(path) ==
    CASE path = "C:/Link/DF.exe" -> "C:/Game/DF.exe"
      [] path = "" -> "cwd"
      [] OTHER -> path

\* one process as process_iter(["name", "exe"]) hands it over: an attribute
\* is {} (None: access was denied) or {value}; raises marks a process whose
\* inspection raises NoSuchProcess or AccessDenied
ProcInfos ==
    [name : {{}} \cup {{n} : n \in ProcNames},
     exe : {{}} \cup {{x} : x \in ExePaths},
     raises : {FALSE}]
    \cup {[name |-> {}, exe |-> {}, raises |-> TRUE]}

RECURSIVE ProcTables(_)
ProcTables(n) ==
    IF n = 0 THEN {<<>>}
    ELSE ProcTables(n - 1)
         \cup {Append(t, e) : t \in {u \in ProcTables(n - 1) : Len(u) = n - 1},
                              e \in ProcInfos}

\* the name test without lowering the process name
IsProcessRunningCaseSensitive(process_stem, exe_path, procs) ==
    \E i \in 1..Len(procs) :
        /\ ~procs[i].raises
        /\ \/ \E name \in procs[i].name :
                  name # <<>> /\ StartsWith(name, process_stem)
           \/ \E executable \in procs[i].exe :
                  executable # "" /\ Resolve(executable) = Resolve(exe_path)

\* the loop of _is_process_running from process i on
RECURSIVE ScanProcesses(_, _, _, _)
ScanProcesses(process_stem, exe_path, procs, i) ==
    IF i > Len(procs) THEN FALSE
    ELSE IF procs[i].raises
         THEN ScanProcesses(process_stem, exe_path, procs, i + 1)
    ELSE IF \E name \in procs[i].name :
                name # <<>> /\ StartsWith(Lower(name), process_stem)
         THEN TRUE
    ELSE IF \E executable \in procs[i].exe :
                executable # "" /\ Resolve(executable) = Resolve(exe_path)
         THEN TRUE
    ELSE ScanProcesses(process_stem, exe_path, procs, i + 1)

IsProcessRunning(process_stem, exe_path, procs) ==
    ScanProcesses(process_stem, exe_path, procs, 1)

\* ConfigMonitor._is_running: the stem was lowered in __init__
RunProbe ==
    /\ ~probe.returned
    /\ probe' = [probe EXCEPT
                   !.returned = TRUE,
                   !.result = IsProcessRunning(Lower(Stem(probe.exe_path)),
                                               probe.exe_path, probe.procs)]
    /\ lastOp' = "is_running"
    /\ UNCHANGED <<mon, monitor_thread, pending_restore_job,
                   game_currently_running, restore_delay_var, selected_config,
                   closing, rootAlive, timers, uiStack, jobs, cfg, backup,
                   gm, ini>>

\* GameMonitor.is_game_running: the same loop on game_path
IsGameRunning ==
    /\ ~probe.returned
    /\ probe' = [probe EXCEPT
                   !.returned = TRUE,
                   !.result = IsProcessRunning(Lower(Stem(probe.exe_path)),
                                               probe.exe_path, probe.procs)]
    /\ lastOp' = "is_game_running"
    /\ UNCHANGED <<mon, monitor_thread, pending_restore_job,
                   game_currently_running, restore_delay_var, selected_config,
                   closing, rootAlive, timers, uiStack, jobs, cfg, backup,
                   gm, ini>>

\* a probe about to run on any process table and any target
ProbeInit ==
    /\ mon = [m \in Monitors |-> UnbornMonitor]
    /\ monitor_thread = None
    /\ pending_restore_job = None
    /\ game_currently_running = FALSE
    /\ restore_delay_var = DEFAULT_RESTORE_DELAY_SECONDS
    /\ selected_config = FALSE
    /\ closing = FALSE
    /\ rootAlive = TRUE
    /\ timers = <<>>
    /\ uiStack = <<>>
    /\ jobs = <<>>
    /\ lastOp = "none"
    /\ cfg = [content |-> PresetContent, readonly |-> FALSE]
    /\ backup = [content |-> BackupContent, readonly |-> FALSE]
    /\ probe \in [procs : ProcTables(MaxProcs), exe_path : Targets,
                  returned : {FALSE}, result : {FALSE}]
    /\ gm = NewGameMonitor
    /\ ini = NoIni

ProbeNext ==
    \/ RunProbe
    \/ IsGameRunning

ProbeSpec == ProbeInit /\ [][ProbeNext]_vars

\* process i of the table matches the target by name or by executable
Matches(p, target) ==
    \/ \E name \in p.name : StartsWith(Lower(name), Lower(Stem(target)))
    \/ \E executable \in p.exe : Resolve(executable) = Resolve(target)

\* C19: the probe returns true exactly when some enumerated process that
\* could be inspected has a name that, lowercased, starts with the target's
\* lowercased stem, or an executable whose resolved path is the target's
\* resolved path; a process whose inspection raises or whose attributes are
\* withheld neither makes the probe fail nor makes it return true; the probe
\* changes nothing but its own result
C19_ProbeContract ==
    [][probe' # probe =>
       /\ probe'.returned
       /\ probe'.result =
              (\E i \in 1..Len(probe.procs) :
                   ~probe.procs[i].raises /\ Matches(probe.procs[i], probe.exe_path))
       /\ probe'.procs = probe.procs
       /\ probe'.exe_path = probe.exe_path
       /\ UNCHANGED <<mon, monitor_thread, pending_restore_job,
                      game_currently_running, restore_delay_var,
                      selected_config, closing, rootAlive, timers, uiStack,
                      jobs, cfg, backup, gm, ini>>
      ]_vars

\* a probe has returned true although the process before the matching one
\* raised, and the match is by a name in another case than the stem
C19_Witness ==
    /\ probe.returned
    /\ probe.result
    /\ Len(probe.procs) = 2
    /\ probe.procs[1].raises
    /\ probe.procs[2].name = {<<"D", "F">>}
    /\ probe.procs[2].exe = {}
    /\ probe.exe_path = "C:/Link/DF.exe"

\* ---- the pending restore and the running flag -----------------------------

\* C20: whenever a restore is pending the game is recorded as running; the
\* restore timers in the queue are the pending one, so a restore timer that
\* fires finds game_currently_running true, and no restore ever ended in the
\* "skipped" branch
C20_PendingImpliesRunning ==
    /\ pending_restore_job # None => game_currently_running
    /\ \A i \in 1..Len(timers) :
           timers[i].cb = "restore" =>
               timers[i].id = pending_restore_job /\ game_currently_running
    /\ \A id \in 1..Len(jobs) : jobs[id].out # "skipped"

\* a first restore was cancelled by a stop while pending, and a second one
\* has fired and copied with the game running
C20_Witness ==
    /\ Len(jobs) = 2
    /\ jobs[1].by \in {"stop", "stopped"}
    /\ jobs[1].fired = 0
    /\ jobs[2].fired = 1
    /\ jobs[2].out = "restored"
    /\ pending_restore_job = None
    /\ game_currently_running

\* ---- one polling loop at a time -------------------------------------------

\* thread m is in the loop of run and will not leave it at its next test of
\* the stop event
Polling(m) ==
    /\ mon[m].pc \in {"check", "probing", "post_log", "post_cb", "waiting"}
    /\ ~(mon[m].stop_event /\ mon[m].pc \in {"check", "waiting"})

\* C21: at most one ConfigMonitor polling loop is alive at any time, whatever
\* the sequence of starts and stops, a stop whose join times out included.
C21_SinglePollingLoop ==
    Cardinality({m \in Monitors : Polling(m)}) <= 1

\* C22: a ConfigMonitor calls neither on_game_started nor on_game_stopped
\* once stop() has been called on it.
C22_NoCallbackAfterStop ==
    [][\A m \in Monitors :
          mon[m].stop_event => mon'[m].emitted = mon[m].emitted]_vars

\* ---- _start_monitoring ----------------------------------------------------

\* a ConfigMonitor is created and started in this step
ThreadStarts == \E m \in Monitors : mon[m].pc = "unborn" /\ mon'[m].pc # "unborn"

LoopAlive(t) == gm.loops[t].pc \notin {"unborn", "done"}

AppUntouched ==
    UNCHANGED <<mon, monitor_thread, pending_restore_job, game_currently_running,
                restore_delay_var, selected_config, closing, rootAlive, timers,
                uiStack, jobs, lastOp, cfg, backup, probe, ini>>

\* start_monitoring: nothing while self.monitoring, else set the flag and
\* start a thread on monitor_loop
GmStartMonitoring ==
    /\ gm.caller = "idle"
    /\ IF gm.monitoring
       THEN gm' = gm
       ELSE \E t \in Loops :
                /\ gm.loops[t].pc = "unborn"
                /\ \A k \in Loops : k < t => gm.loops[k].pc # "unborn"
                /\ gm' = [gm EXCEPT !.monitoring = TRUE,
                                    !.monitor_thread = t,
                                    !.loops[t].pc = "test"]
    /\ AppUntouched

\* stop_monitoring: clear the flag and wait in join(timeout=1) if a thread
\* was ever started
GmStopMonitoring ==
    /\ gm.caller = "idle"
    /\ gm' = [gm EXCEPT !.monitoring = FALSE,
                        !.caller = IF gm.monitor_thread # None THEN "joining"
                                   ELSE "idle"]
    /\ AppUntouched

\* join returns: the thread has ended, or a second has passed with the
\* thread in time.sleep(check_interval), in a probe or in a notification
GmJoinReturn ==
    /\ gm.caller = "joining"
    /\ gm.loops[gm.monitor_thread].pc # "test"
    /\ gm' = [gm EXCEPT !.caller = "idle"]
    /\ AppUntouched

\* while self.monitoring: ... the loop test of monitor_loop
GmLoopTest(t) ==
    /\ gm.loops[t].pc = "test"
    /\ IF gm.monitoring
       THEN /\ gm.checks < MaxProbes
            /\ gm' = [gm EXCEPT !.loops[t].pc = "probing", !.checks = @ + 1]
       ELSE gm' = [gm EXCEPT !.loops[t].pc = "done"]
    /\ AppUntouched

\* current_status = self.is_game_running() and the edge test on is_running
GmProbeReturn(t, status) ==
    /\ gm.loops[t].pc = "probing"
    /\ gm' = [gm EXCEPT
                !.loops[t].current_status = status,
                !.loops[t].pc = IF status /\ ~gm.is_running THEN "notify_started"
                                ELSE IF ~status /\ gm.is_running THEN "notify_closed"
                                ELSE "sleeping"]
    /\ AppUntouched

\* send_notification returns (its failure is swallowed) and is_running is set
GmNotify(t) ==
    /\ gm.loops[t].pc \in {"notify_started", "notify_closed"}
    /\ gm' = [gm EXCEPT
                !.sent = Append(@, [by |-> t, what |-> gm.loops[t].pc]),
                !.is_running = (gm.loops[t].pc = "notify_started"),
                !.loops[t].pc = "sleeping"]
    /\ AppUntouched

\* time.sleep(self.check_interval) is over
GmWake(t) ==
    /\ gm.loops[t].pc = "sleeping"
    /\ gm' = [gm EXCEPT !.loops[t].pc = "test"]
    /\ AppUntouched

GmInit ==
    /\ mon = [m \in Monitors |-> UnbornMonitor]
    /\ monitor_thread = None
    /\ pending_restore_job = None
    /\ game_currently_running = FALSE
    /\ restore_delay_var = DEFAULT_RESTORE_DELAY_SECONDS
    /\ selected_config = FALSE
    /\ closing = FALSE
    /\ rootAlive = TRUE
    /\ timers = <<>>
    /\ uiStack = <<>>
    /\ jobs = <<>>
    /\ lastOp = "none"
    /\ cfg = [content |-> PresetContent, readonly |-> FALSE]
    /\ backup = [content |-> BackupContent, readonly |-> FALSE]
    /\ probe = NoProbe
    /\ gm = NewGameMonitor
    /\ ini = NoIni

GmNext ==
    \/ GmStartMonitoring
    \/ GmStopMonitoring
    \/ GmJoinReturn
    \/ \E t \in Loops :
           \/ GmLoopTest(t)
           \/ \E status \in BOOLEAN : GmProbeReturn(t, status)
           \/ GmNotify(t)
           \/ GmWake(t)

GmSpec == GmInit /\ [][GmNext]_vars

\* C24: while the GameMonitor is monitoring at most one monitor_loop thread
\* is alive, whatever sequence of start_monitoring and stop_monitoring calls
\* was made.
C24_SingleMonitorLoop ==
    gm.monitoring => Cardinality({t \in Loops : LoopAlive(t)}) <= 1

\* ---- main.py: the anti-aliasing line of GameUserSettings.ini --------------

\* longest configuration file, in lines
MaxLines == 4

Target == "sg.AntiAliasingQuality=0"

\* the lines a configuration file is made of: the section header in the
\* game's spelling, another header, the target line bare, padded with
\* blanks and behind a comment sign, the key with another value, another
\* key, the empty line
LineTexts ==
    {"[ScalabilityGroups]", "[Other]", Target, " sg.AntiAliasingQuality=0 ",
     ";sg.AntiAliasingQuality=0", "sg.AntiAliasingQuality=3", "x=1", ""}

\* str.strip
Strip(line) == IF line = " sg.AntiAliasingQuality=0 " THEN Target ELSE line

\* str.lower
LowerLine(line) ==
    CASE line = "[ScalabilityGroups]" -> "[scalabilitygroups]"
      [] line = "[Other]" -> "[other]"
      [] line = Target -> "sg.antialiasingquality=0"
      [] line = " sg.AntiAliasingQuality=0 " -> " sg.antialiasingquality=0 "
      [] line = ";sg.AntiAliasingQuality=0" -> ";sg.antialiasingquality=0"
      [] line = "sg.AntiAliasingQuality=3" -> "sg.antialiasingquality=3"
      [] OTHER -> line

\* stripped.startswith("[") and stripped.endswith("]")
IsHeader(stripped) == stripped \in {"[ScalabilityGroups]", "[Other]"}

\* lowered.startswith("sg.antialiasingquality")
StartsWithKey(lowered) ==
    lowered \in {"sg.antialiasingquality=0", "sg.antialiasingquality=3"}

\* "sg.AntiAliasingQuality=0" in line
ContainsTarget(line) ==
    line \in {Target, " sg.AntiAliasingQuality=0 ", ";sg.AntiAliasingQuality=0"}

IsBlank(line) == Strip(line) = ""

\* A str is the sequence of its lines and whether the last one is ended by
\* "\n"; the empty str has no line. A file is the same with the terminator
\* its lines end in ("crlf" also where no line is terminated).
HasTerminator(text) == text.nl \/ Len(text.lines) >= 2

EmptyText == [lines |-> <<>>, nl |-> FALSE]

\* the platform's line terminator: the program looks for the game on C: and D:
NativeEol == "crlf"

\* Path.read_text: the newlines of the file become "\n"
ReadText(file) == [lines |-> file.lines, nl |-> file.nl]

\* Path.write_text: "\n" is written as the platform's terminator
WriteText(text) ==
    [exists |-> TRUE,
     eol |-> IF HasTerminator(text) THEN NativeEol ELSE "crlf",
     lines |-> text.lines, nl |-> text.nl]

\* str.splitlines
SplitLines(text) == text.lines

\* "\n".join(lines)
JoinLines(ls) ==
    IF ls = <<>> THEN EmptyText
    ELSE IF ls[Len(ls)] = ""
         THEN (IF Len(ls) = 1 THEN EmptyText
               ELSE [lines |-> SubSeq(ls, 1, Len(ls) - 1), nl |-> TRUE])
    ELSE [lines |-> ls, nl |-> FALSE]

\* content + "\n"
AddNewline(text) ==
    IF text = EmptyText THEN [lines |-> <<"">>, nl |-> TRUE]
    ELSE IF text.nl THEN [lines |-> Append(text.lines, ""), nl |-> TRUE]
    ELSE [lines |-> text.lines, nl |-> TRUE]

\* list.insert(i, x), i counted from 1
InsertAt(ls, i, x) == SubSeq(ls, 1, i - 1) \o <<x>> \o SubSeq(ls, i, Len(ls))

\* the for loop of apply_anti_aliasing_setting from line idx on
RECURSIVE ApplyScan(_, _, _, _, _)
ApplyScan(ls, idx, in_section, section_found, insertion_index) ==
    IF idx > Len(ls)
    THEN [end |-> "done", lines |-> ls, section_found |-> section_found,
          insertion_index |-> insertion_index]
    ELSE LET stripped == Strip(ls[idx])
         IN IF IsHeader(stripped)
            THEN LET sg == LowerLine(stripped) = "[scalabilitygroups]"
                 IN ApplyScan(ls, idx + 1, sg, section_found \/ sg,
                              IF in_section /\ insertion_index = None
                              THEN idx ELSE insertion_index)
            ELSE IF in_section /\ StartsWithKey(LowerLine(stripped))
                 THEN (IF stripped = Target
                       THEN [end |-> "exists", lines |-> ls,
                             section_found |-> section_found,
                             insertion_index |-> insertion_index]
                       ELSE [end |-> "updated",
                             lines |-> [ls EXCEPT ![idx] = Target],
                             section_found |-> section_found,
                             insertion_index |-> insertion_index])
            ELSE ApplyScan(ls, idx + 1, in_section, section_found, insertion_index)

\* the setting appended to the text, whatever the text holds
ApplyToTextAppends(content) ==
    [changed |-> TRUE,
     content |-> AddNewline(JoinLines(Append(SplitLines(content), Target)))]

\* apply_anti_aliasing_setting on the text read: the text to write, if any
ApplyToText(content) ==
    IF \E i \in 1..Len(content.lines) : ContainsTarget(content.lines[i])
    THEN [changed |-> FALSE, content |-> content]
    ELSE LET ls == SplitLines(content)
             r == ApplyScan(ls, 1, FALSE, FALSE, None)
             new == IF r.end = "updated" THEN r.lines
                    ELSE IF r.section_found
                         THEN (IF r.insertion_index = None THEN Append(ls, Target)
                               ELSE InsertAt(ls, r.insertion_index, Target))
                    ELSE (IF ls # <<>> /\ ~IsBlank(ls[Len(ls)])
                          THEN Append(ls, "") ELSE ls)
                         \o <<"[ScalabilityGroups]", Target>>
             joined == JoinLines(new)
         IN IF r.end = "exists" THEN [changed |-> FALSE, content |-> content]
            ELSE [changed |-> TRUE,
                  content |-> IF joined.nl THEN joined ELSE AddNewline(joined)]

\* how a write_text call ends: done, OSError at open (file untouched),
\* OSError while writing (file opened and truncated)
WriteModes == {"ok", "open", "write"}

WriteResult(file, text, wr) ==
    IF wr = "ok" THEN WriteText(text)
    ELSE IF wr = "open" THEN file
    ELSE WriteText(EmptyText)

\* while i < len(lines) and not lines[i].strip(): del lines[i]
RECURSIVE DropBlanksFrom(_, _)
DropBlanksFrom(ls, i) ==
    IF i <= Len(ls) /\ IsBlank(ls[i])
    THEN DropBlanksFrom(SubSeq(ls, 1, i - 1) \o SubSeq(ls, i + 1, Len(ls)), i)
    ELSE ls

\* while prev >= 0 and not lines[prev].strip(): del lines[prev]; prev -= 1
RECURSIVE DropBlanksBefore(_, _)
DropBlanksBefore(ls, prev) ==
    IF prev >= 1 /\ prev <= Len(ls) /\ IsBlank(ls[prev])
    THEN DropBlanksBefore(SubSeq(ls, 1, prev - 1) \o SubSeq(ls, prev + 1, Len(ls)),
                          prev - 1)
    ELSE ls

\* the last lines of _strip_anti_aliasing_setting: the target lines are
\* removed wherever they are
StripEverywhere(content) ==
    LET ls == SplitLines(content)
        trimmed == SelectSeq(ls, LAMBDA l : Strip(l) # Target)
    IN [changed |-> Len(trimmed) # Len(ls), content |-> JoinLines(trimmed)]

\* _strip_anti_aliasing_setting
StripAntiAliasingSetting(content) ==
    LET ls == SplitLines(content)
        heads == {i \in 1..Len(ls) : LowerLine(Strip(ls[i])) = "[scalabilitygroups]"}
        start == IF heads = {} THEN None
                 ELSE CHOOSE i \in heads : \A j \in heads : i <= j
        nexts == {j \in (start + 1)..Len(ls) : IsHeader(Strip(ls[j]))}
        end == IF nexts = {} THEN Len(ls) + 1
               ELSE CHOOSE j \in nexts : \A k \in nexts : j <= k
        section == SubSeq(ls, start + 1, end - 1)
        filtered == SelectSeq(section, LAMBDA l : Strip(l) # Target)
        spliced == SubSeq(ls, 1, start) \o filtered \o SubSeq(ls, end, Len(ls))
        \* del lines[start_idx:end_idx], end_idx being the index found
        \* before the splice
        cut == SubSeq(spliced, 1, start - 1) \o SubSeq(spliced, end, Len(spliced))
        tidy == DropBlanksBefore(DropBlanksFrom(cut, start), start - 1)
    IN IF start # None /\ Len(filtered) # Len(section)
       THEN [changed |-> TRUE,
             content |-> JoinLines(IF \A i \in 1..Len(filtered) : IsBlank(filtered[i])
                                   THEN tidy ELSE spliced)]
       ELSE StripEverywhere(content)

IniUntouched ==
    UNCHANGED <<mon, monitor_thread, pending_restore_job, game_currently_running,
                restore_delay_var, selected_config, closing, rootAlive, timers,
                uiStack, jobs, lastOp, cfg, backup, probe, gm>>

\* apply_anti_aliasing_setting(config_file); readOk tells whether read_text
\* succeeds, wr how write_text ends
ApplyAntiAliasingSetting(readOk, wr) ==
    /\ LET r == ApplyToText(ReadText(ini.file))
       IN IF ~ini.file.exists \/ ~readOk \/ ~r.changed
          THEN ini' = [ini EXCEPT !.op = "apply", !.changed = FALSE]
          ELSE ini' = [ini EXCEPT !.op = "apply", !.changed = (wr = "ok"),
                                  !.file = WriteResult(ini.file, r.content, wr)]
    /\ IniUntouched

\* remove_anti_aliasing_setting(config_file)
RemoveAntiAliasingSetting(readOk, wr) ==
    /\ LET r == StripAntiAliasingSetting(ReadText(ini.file))
           out == IF r.content # EmptyText /\ ~r.content.nl
                  THEN AddNewline(r.content) ELSE r.content
       IN IF ~ini.file.exists \/ ~readOk \/ ~r.changed
          THEN ini' = [ini EXCEPT !.op = "remove", !.changed = FALSE]
          ELSE ini' = [ini EXCEPT !.op = "remove", !.changed = (wr = "ok"),
                                  !.file = WriteResult(ini.file, out, wr)]
    /\ IniUntouched

\* the configuration files the functions can meet
RECURSIVE LineSeqs(_)
LineSeqs(n) ==
    IF n = 0 THEN {<<>>}
    ELSE LineSeqs(n - 1)
         \cup {Append(ls, l) : ls \in {k \in LineSeqs(n - 1) : Len(k) = n - 1},
                               l \in LineTexts}

Files ==
    {f \in [exists : {TRUE}, eol : {"crlf", "lf"}, lines : LineSeqs(MaxLines),
            nl : BOOLEAN] :
        /\ f.lines = <<>> => ~f.nl
        /\ ~f.nl /\ f.lines # <<>> => f.lines[Len(f.lines)] # ""
        /\ ~HasTerminator(f) => f.eol = "crlf"}
    \cup {NoFile}

\* describe_setting_status, as far as the buttons depend on it
DescribeSettingStatus(file, readOk) ==
    IF ~file.exists \/ ~readOk THEN "unreadable"
    ELSE IF \E i \in 1..Len(file.lines) : ContainsTarget(file.lines[i])
         THEN "written"
    ELSE "missing"

IniInit ==
    /\ mon = [m \in Monitors |-> UnbornMonitor]
    /\ monitor_thread = None
    /\ pending_restore_job = None
    /\ game_currently_running = FALSE
    /\ restore_delay_var = DEFAULT_RESTORE_DELAY_SECONDS
    /\ selected_config = FALSE
    /\ closing = FALSE
    /\ rootAlive = TRUE
    /\ timers = <<>>
    /\ uiStack = <<>>
    /\ jobs = <<>>
    /\ lastOp = "none"
    /\ cfg = [content |-> PresetContent, readonly |-> FALSE]
    /\ backup = [content |-> BackupContent, readonly |-> FALSE]
    /\ probe = NoProbe
    /\ gm = NewGameMonitor
    /\ \E f \in Files :
           ini = [NoIni EXCEPT !.file = f, !.status = DescribeSettingStatus(f, TRUE)]

IniNext ==
    \/ \E readOk \in BOOLEAN, wr \in WriteModes : ApplyAntiAliasingSetting(readOk, wr)
    \/ \E readOk \in BOOLEAN, wr \in WriteModes : RemoveAntiAliasingSetting(readOk, wr)

IniSpec == IniInit /\ [][IniNext]_vars

\* the file has the target line in a [ScalabilityGroups] section
TargetInSection(file) ==
    \E h, i \in 1..Len(file.lines) :
        /\ h < i
        /\ LowerLine(Strip(file.lines[h])) = "[scalabilitygroups]"
        /\ file.lines[i] = Target
        /\ \A j \in (h + 1)..(i - 1) : ~IsHeader(Strip(file.lines[j]))

\* C25: after a call of apply_anti_aliasing_setting that returns changed=True
\* the file has the line sg.AntiAliasingQuality=0 in a [ScalabilityGroups]
\* section, and the call that follows it directly returns changed=False and
\* leaves the file as it is.
C25_ApplyIdempotent ==
    [][/\ (ini'.op = "apply" /\ ini'.changed /\ ini' # ini) =>
              TargetInSection(ini'.file)
       /\ (ini.op = "apply" /\ ini.changed /\ ini'.op = "apply") =>
              (~ini'.changed /\ ini'.file = ini.file)
      ]_vars

\* a section was added to a file without one, and a second call has found
\* the setting in place
C25_Witness ==
    /\ ini.op = "apply"
    /\ ~ini.changed
    /\ ini.file.lines = <<"x=1", "", "[ScalabilityGroups]", Target>>
    /\ ini.file.nl

\* C26: after remove_anti_aliasing_setting has returned changed=True the
\* file has no line whose stripped text is sg.AntiAliasingQuality=0, in any
\* section or outside; when it returns changed=False the file is unchanged.
C26_RemoveLeavesNoTarget ==
    [][ini'.op = "remove" /\ ini' # ini =>
          /\ ini'.changed =>
                 \A i \in 1..Len(ini'.file.lines) : Strip(ini'.file.lines[i]) # Target
          /\ ~ini'.changed => ini'.file = ini.file
      ]_vars

\* ---- main.py: DeltaForceAssistant, write and delete buttons ---------------

\* what the game writes when it saves its settings
GameFile ==
    [exists |-> TRUE, eol |-> "crlf",
     lines |-> <<"[ScalabilityGroups]", "sg.AntiAliasingQuality=3">>, nl |-> TRUE]

\* on_write, the write button being enabled only when the status last shown
\* was neither "written" nor "unreadable"; confirm is the answer to askyesno,
\* readOk whether the file can be read during the call, wr how write_text ends
OnWrite(confirm, readOk, wr) ==
    /\ ini.status = "missing"
    /\ LET current_status == DescribeSettingStatus(ini.file, readOk)
           r == ApplyToText(ReadText(ini.file))
           written == r.changed /\ wr = "ok"
           file == IF r.changed THEN WriteResult(ini.file, r.content, wr)
                   ELSE ini.file
       IN IF current_status = "written"
          THEN ini' = [ini EXCEPT !.op = "on_write", !.changed = FALSE,
                                  !.status = current_status]
          ELSE IF ~confirm \/ ~ini.file.exists \/ ~readOk
          THEN ini' = [ini EXCEPT !.op = "on_write", !.changed = FALSE]
          ELSE ini' = [ini EXCEPT
                         !.op = "on_write",
                         !.changed = written,
                         !.file = file,
                         !.original_contents =
                             IF written /\ @ = {} THEN {ReadText(ini.file)} ELSE @,
                         !.snapshot_of =
                             IF written /\ ini.original_contents = {}
                             THEN {ini.file} ELSE @,
                         !.status = DescribeSettingStatus(file, readOk)]
    /\ IniUntouched

\* on_delete_setting, the delete button being enabled only when the status
\* last shown was "written"
OnDeleteSetting(confirm, readOk, wr) ==
    /\ ini.status = "written"
    /\ LET r == StripAntiAliasingSetting(ReadText(ini.file))
           out == IF r.content # EmptyText /\ ~r.content.nl
                  THEN AddNewline(r.content) ELSE r.content
           removes == ini.file.exists /\ readOk /\ r.changed
           file == IF removes THEN WriteResult(ini.file, out, wr) ELSE ini.file
       IN IF ~confirm
          THEN ini' = [ini EXCEPT !.op = "on_delete", !.changed = FALSE]
          ELSE IF ini.original_contents # {}
          THEN \E original_content \in ini.original_contents :
                   IF wr = "ok"
                   THEN ini' = [ini EXCEPT
                                  !.op = "on_delete", !.changed = TRUE,
                                  !.file = WriteText(original_content),
                                  !.original_contents = {},
                                  !.snapshot_of = {},
                                  !.status = DescribeSettingStatus(
                                                 WriteText(original_content), readOk)]
                   ELSE ini' = [ini EXCEPT
                                  !.op = "on_delete", !.changed = FALSE,
                                  !.file = WriteResult(ini.file, original_content, wr)]
          ELSE ini' = [ini EXCEPT
                         !.op = "on_delete",
                         !.changed = removes /\ wr = "ok",
                         !.file = file,
                         !.status = DescribeSettingStatus(file, readOk)]
    /\ IniUntouched

\* on_select_config: the status is read again and the buttons follow it
OnSelectConfig(readOk) ==
    /\ ini' = [ini EXCEPT !.op = "select", !.changed = FALSE,
                          !.status = DescribeSettingStatus(ini.file, readOk)]
    /\ IniUntouched

\* the game saves its settings over the file
GameRewritesConfig ==
    /\ ini.file.exists
    /\ ini.file # GameFile
    /\ ini' = [ini EXCEPT !.op = "game", !.changed = FALSE, !.file = GameFile]
    /\ IniUntouched

AssistantNext ==
    \/ \E confirm, readOk \in BOOLEAN, wr \in WriteModes : OnWrite(confirm, readOk, wr)
    \/ \E confirm, readOk \in BOOLEAN, wr \in WriteModes :
           OnDeleteSetting(confirm, readOk, wr)
    \/ \E readOk \in BOOLEAN : OnSelectConfig(readOk)
    \/ GameRewritesConfig

AssistantSpec == IniInit /\ [][AssistantNext]_vars

\* C27: original_contents holds the text read before the first successful
\* write and nothing else, later writes do not replace it, and the
\* on_delete_setting that uses it leaves the file exactly as it was before
\* that write and forgets the snapshot.
C27_DeleteRestoresOriginal ==
    [][/\ (ini.original_contents = {} /\ ini'.original_contents # {}) =>
              /\ ini'.op = "on_write" /\ ini'.changed
              /\ ini'.original_contents = {ReadText(ini.file)}
              /\ ini'.snapshot_of = {ini.file}
       /\ (ini.original_contents # {} /\ ini'.original_contents # {}) =>
              /\ ini'.original_contents = ini.original_contents
              /\ ini'.snapshot_of = ini.snapshot_of
       /\ (ini.original_contents # {} /\ ini'.original_contents = {}) =>
              /\ ini'.op = "on_delete"
              /\ ini'.file \in ini.snapshot_of
      ]_vars

====
